---------------------------- MODULE Spec2Model ----------------------------
(***************************************************************************)
(* Model of the A2A message shim (src/a2a_test.py: Message model, wire     *)
(* codec, WSGI server `app`, A2AClient.send_message) and of the career     *)
(* service's in-memory pipeline (src/career_multi_agent.py).               *)
(*                                                                         *)
(* Python values are tagged records, so that values of different Python    *)
(* types can be compared: None, str, int, dict, list.  The three classes   *)
(* TextContent, Metadata and Message are records tagged with their class.  *)
(* An operation that can raise returns [ok |-> FALSE, exc |-> <class>].    *)
(***************************************************************************)
EXTENDS Integers, Sequences, FiniteSets, TLC

VARIABLES
    uuidCount,      \* number of uuid.uuid4() calls made so far (both programs)
    generated,      \* the ids made from those calls, in order: the ids of the Messages
                    \* built without a usable id (A2A), the resume ids issued (career)
    errSeen,        \* A2A: a handler has raised in an earlier server request
    op,             \* A2A: the last operation, its inputs and its outcome
    RESUME_STORE,   \* career: resume_id -> [text, inferred_role, jobs]
    matched,        \* career: resume_id -> job list of its latest /job-match-agent call answered 200
    fetched,        \* career: resume_id -> job list of its latest /job-match-agent call whose search succeeded
    call            \* career: the last endpoint call, its inputs and its outcome

vars == <<uuidCount, generated, errSeen, op, RESUME_STORE, matched, fetched, call>>

a2aVars == <<errSeen, op>>
careerVars == <<RESUME_STORE, matched, fetched, call>>

---------------------------------------------------------------------------
(* Bounds of the model.                                                    *)

\* uuid.uuid4() calls in one behaviour
MaxUuid == 2

\* bytes in a non-empty request body
BodyLen == 2

\* search results beyond the limit asked for
MaxExtra == 1

---------------------------------------------------------------------------
(* Python values.                                                          *)

None == [t |-> "None"]
Str(s) == [t |-> "str", s |-> s]
PyInt(n) == [t |-> "int", n |-> n]
Dict(f) == [t |-> "dict", f |-> f]
List(q) == [t |-> "list", q |-> q]

EmptyMap == [k \in {} |-> None]
EmptyDict == Dict(EmptyMap)

\* Python truth value of `v`, as `or`, `and`, `if` and `not` take it.
Truthy(v) ==
    CASE v.t = "None" -> FALSE
      [] v.t = "str" -> v.s # ""
      [] v.t = "int" -> v.n # 0
      [] v.t = "dict" -> DOMAIN v.f # {}
      [] v.t = "list" -> Len(v.q) > 0
      [] OTHER -> TRUE

\* `a or b`
PyOr(a, b) == IF Truthy(a) THEN a ELSE b

IsDict(v) == v.t = "dict"

\* d.get(key, default) on a dict d
Get(d, key, default) == IF key \in DOMAIN d.f THEN d.f[key] ELSE default

\* str(v): a str is itself; any other value's string form is a str that
\* determines the value it was made from.
PyStr(v) == IF v.t = "str" THEN v ELSE [t |-> "str", s |-> "repr", of |-> v]

\* The decimal text of the integer k, as a str.
DecStr(k) == [t |-> "str", s |-> "dec", n |-> k]

\* int(v) for a str v: its value when v is a decimal text, else ValueError.
int(v) == IF "n" \in DOMAIN v THEN [ok |-> TRUE, v |-> v.n]
          ELSE [ok |-> FALSE, exc |-> "ValueError"]

Ok(v) == [ok |-> TRUE, v |-> v]
Raise(e) == [ok |-> FALSE, exc |-> e]

---------------------------------------------------------------------------
(* Message model.                                                          *)

USER == Str("user")
AGENT == Str("agent")

TextContent(text) == [t |-> "TextContent", text |-> text]

Metadata(custom_fields) ==
    [t |-> "Metadata", custom_fields |-> PyOr(custom_fields, EmptyDict)]

\* str(uuid.uuid4()) of the n-th call: a fresh identifier
uuid4(n) == Str("uuid-" \o ToString(n))

\* Line 46 with a fixed default in place of a new uuid.
MessageIdOr_fixed(message_id, n) == IF Truthy(message_id) THEN message_id ELSE Str("msg")

\* The id a Message gets: the one passed in when truthy, else a new uuid.
MessageIdOr(message_id, n) == IF Truthy(message_id) THEN message_id ELSE uuid4(n + 1)

\* Message.__init__, with n uuid4() calls made before it.
Message(role, content, conversation_id, parent_message_id, message_id, metadata, n) ==
    [t |-> "Message",
     role |-> role,
     content |-> content,
     conversation_id |-> conversation_id,
     parent_message_id |-> parent_message_id,
     message_id |-> MessageIdOr(message_id, n),
     metadata |-> IF Truthy(metadata) THEN metadata ELSE Metadata(None)]

\* The ids Message.__init__ generates (none or one) when given `message_id`,
\* with n uuid4() calls made before it.
Generated(message_id, n) ==
    IF Truthy(message_id) THEN <<>> ELSE <<MessageIdOr(message_id, n)>>

---------------------------------------------------------------------------
(* Wire codec.                                                             *)

\* Lines 102-112 with line 109 reading the key of line 108.
_message_from_json_samekey(obj, n) ==
    IF ~IsDict(obj) THEN Raise("AttributeError")
    ELSE LET c == Get(obj, "content", EmptyDict) IN
         IF ~IsDict(c) THEN Raise("AttributeError")
         ELSE [ok |-> TRUE,
               v |-> Message(Get(obj, "role", USER),
                             TextContent(Get(c, "text", Str(""))),
                             Get(obj, "conversation_id", None),
                             Get(obj, "conversation_id", None),
                             Get(obj, "message_id", None),
                             Metadata(Get(obj, "metadata", EmptyDict)),
                             n),
               gen |-> Generated(Get(obj, "message_id", None), n)]

_message_from_json(obj, n) ==
    IF ~IsDict(obj) THEN Raise("AttributeError")
    ELSE LET c == Get(obj, "content", EmptyDict) IN
         IF ~IsDict(c) THEN Raise("AttributeError")
         ELSE [ok |-> TRUE,
               v |-> Message(Get(obj, "role", USER),
                             TextContent(Get(c, "text", Str(""))),
                             Get(obj, "conversation_id", None),
                             Get(obj, "parent_message_id", None),
                             Get(obj, "message_id", None),
                             Metadata(Get(obj, "metadata", EmptyDict)),
                             n),
               gen |-> Generated(Get(obj, "message_id", None), n)]

MessageKeys == {"role", "message_id", "conversation_id", "parent_message_id",
                "content", "metadata"}

_message_to_json(msg) ==
    IF msg.t # "Message" THEN Raise("AttributeError")
    ELSE Ok(Dict([k \in MessageKeys |->
            CASE k = "role" -> msg.role
              [] k = "message_id" -> msg.message_id
              [] k = "conversation_id" -> msg.conversation_id
              [] k = "parent_message_id" -> msg.parent_message_id
              [] k = "content" -> Dict([j \in {"text"} |-> msg.content.text])
              [] k = "metadata" -> IF Truthy(msg.metadata)
                                     THEN msg.metadata.custom_fields
                                     ELSE EmptyDict]))

---------------------------------------------------------------------------
(* Bytes on the wire: an HTTP body is empty, plain text, bytes that are    *)
(* not UTF-8, text that is not JSON, or the JSON text of a value.          *)

EmptyBytes == [kind |-> "empty"]
TextBytes(s) == [kind |-> "text", s |-> s]
BadUtf8Bytes == [kind |-> "badutf8"]
BadJsonBytes == [kind |-> "badjson"]

\* json.dumps(v).encode('utf-8')
JsonDumps(v) == [kind |-> "json", v |-> v]

\* json.loads(b.decode('utf-8')): the value of a JSON text, else an exception
\* (UnicodeDecodeError and JSONDecodeError are both ValueError).
JsonLoads(b) == IF b.kind = "json" THEN Ok(b.v) ELSE Raise("ValueError")

BytesLen(b) == IF b.kind = "empty" THEN 0 ELSE BodyLen

\* wsgi.input.read(length) on a stream holding `b`.  A negative length is
\* outside what the stream promises: `neg` is what this stream does then
\* ("raise": ValueError, "eof": read to the end).  A proper prefix of a
\* body is not a JSON text.
Read(b, length, neg) ==
    IF length < 0
      THEN (IF neg = "raise" THEN Raise("ValueError") ELSE Ok(b))
      ELSE IF length >= BytesLen(b) THEN Ok(b) ELSE Ok(BadJsonBytes)

---------------------------------------------------------------------------
(* Handler: A2AServer.handle_message and its overrides.                    *)

\* What a bridge does with `msg`, with n uuid4() calls made before:
\*   base   the base class: raise NotImplementedError()
\*   raise  an override that raises Exception(text)
\*   echo   an override that answers with the text it was sent
\*   reply  an override that answers with a Message built from `args`
handle_message(bridge, msg, n) ==
    CASE bridge.kind = "base" -> [ok |-> FALSE, exc |-> "NotImplementedError", text |-> ""]
      [] bridge.kind = "raise" -> [ok |-> FALSE, exc |-> "Exception", text |-> bridge.text]
      [] bridge.kind = "echo" ->
            [ok |-> TRUE,
             v |-> Message(AGENT, TextContent(msg.content.text), msg.conversation_id,
                           msg.message_id, None, None, n),
             gen |-> Generated(None, n)]
      [] bridge.kind = "reply" ->
            [ok |-> TRUE,
             v |-> Message(bridge.args.role, TextContent(bridge.args.text),
                           bridge.args.conversation_id, bridge.args.parent_message_id,
                           bridge.args.message_id, bridge.args.metadata, n),
             gen |-> Generated(bridge.args.message_id, n)]

---------------------------------------------------------------------------
(* Transport server: run_server.app                                        *)

NOT_FOUND == 404
METHOD_NOT_ALLOWED == 405
OK == 200
INTERNAL_SERVER_ERROR == 500

\* What one call of app leaves behind: the response started (status 0 and
\* `exc` set when an exception left app instead), whether wsgi.input was
\* read, the Message handed to the handler (None when it was not called),
\* whether the handler raised, the Message it returned (None when it returned
\* none), and the ids generated for the Messages built.
AppResult(status, body, exc, read, msg, raised, reply, gen) ==
    [status |-> status, body |-> body, exc |-> exc, read |-> read,
     handled |-> msg # None, msg |-> msg, raised |-> raised, reply |-> reply,
     gen |-> gen]

\* Lines 144-147: the length to read.
ContentLength(environ) ==
    LET h == PyOr(environ.CONTENT_LENGTH, PyInt(0)) IN
    IF h.t = "int" THEN h.n
    ELSE IF int(h).ok THEN int(h).v ELSE 0

\* Lines 150-153: the payload of the body read.
Payload(body) ==
    IF body.kind = "empty" THEN EmptyDict
    ELSE IF JsonLoads(body).ok THEN JsonLoads(body).v ELSE EmptyDict

\* The 500 reply of lines 165-168 for an exception whose str() is `text`.
ErrorReply(text, msg, raised, reply, gen) ==
    AppResult(INTERNAL_SERVER_ERROR, JsonDumps(Dict([k \in {"error"} |-> Str(text)])),
              "", TRUE, msg, raised, reply, gen)

\* Lines 157-168 without the except clause: the handler's exception leaves app.
Dispatch_uncaught(bridge, msg, gen, n) ==
    LET r == handle_message(bridge, msg, n) IN
    IF ~r.ok THEN AppResult(0, EmptyBytes, r.exc, TRUE, msg, TRUE, None, gen)
    ELSE AppResult(OK,
            JsonDumps(Dict([k \in MessageKeys \cup {"parts"} |->
                IF k = "parts"
                  THEN List(<<Dict([j \in {"text"} |-> r.v.content.text])>>)
                  ELSE _message_to_json(r.v).v.f[k]])),
            "", TRUE, msg, FALSE, r.v, gen \o r.gen)

\* Lines 157-168 with line 161 left out: the reply carries no parts.
Dispatch_noparts(bridge, msg, gen, n) ==
    LET r == handle_message(bridge, msg, n) IN
    IF ~r.ok THEN ErrorReply(r.text, msg, TRUE, None, gen)
    ELSE AppResult(OK, JsonDumps(_message_to_json(r.v).v), "", TRUE, msg, FALSE, r.v,
                   gen \o r.gen)

\* Lines 157-168: dispatch and reply; `gen` are the ids generated so far in
\* this call, n the uuid4() calls made before the handler runs.
Dispatch(bridge, msg, gen, n) ==
    LET r == handle_message(bridge, msg, n) IN
    IF ~r.ok THEN ErrorReply(r.text, msg, TRUE, None, gen)
    ELSE LET out == _message_to_json(r.v) IN
         IF ~out.ok THEN ErrorReply(out.exc, msg, FALSE, r.v, gen \o r.gen)
         ELSE AppResult(OK,
                JsonDumps(Dict([k \in MessageKeys \cup {"parts"} |->
                    IF k = "parts"
                      THEN List(<<Dict([j \in {"text"} |-> r.v.content.text])>>)
                      ELSE out.v.f[k]])),
                "", TRUE, msg, FALSE, r.v, gen \o r.gen)

app(environ, bridge, neg, n) ==
    IF environ.PATH_INFO # "/a2a" /\ environ.PATH_INFO # "/a2a/"
      THEN AppResult(NOT_FOUND, TextBytes("Not Found"), "", FALSE, None, FALSE, None, <<>>)
    ELSE IF environ.REQUEST_METHOD # "POST"
      THEN AppResult(METHOD_NOT_ALLOWED, TextBytes("Method Not Allowed"), "",
                     FALSE, None, FALSE, None, <<>>)
    ELSE LET length == ContentLength(environ)
             body == IF length # 0 THEN Read(environ.input, length, neg)
                     ELSE Ok(EmptyBytes)
         IN  IF ~body.ok
               THEN AppResult(0, EmptyBytes, body.exc, TRUE, None, FALSE, None, <<>>)
             ELSE LET m == _message_from_json(Payload(body.v), n) IN
                  IF ~m.ok
                    THEN AppResult(0, EmptyBytes, m.exc, length # 0, None, FALSE, None, <<>>)
                    ELSE Dispatch(bridge, m.v, m.gen, n + Len(m.gen))

---------------------------------------------------------------------------
(* Transport client: A2AClient.send_message                                *)

\* Lines 72-79: the payload posted for `message`.
ClientPayload(message) ==
    Dict([k \in MessageKeys |->
        CASE k = "role" -> message.role
          [] k = "content" -> Dict([j \in {"text"} |-> message.content.text])
          [] k = "conversation_id" -> message.conversation_id
          [] k = "parent_message_id" -> message.parent_message_id
          [] k = "message_id" -> message.message_id
          [] k = "metadata" -> IF Truthy(message.metadata)
                                 THEN message.metadata.custom_fields
                                 ELSE EmptyDict])

\* What requests.post gives back: an HTTP reply or a timeout.
HttpReply(status, body) == [kind |-> "http", status |-> status, body |-> body]
TimedOut == [kind |-> "timeout"]

\* What send_message gives its caller.
Raised(exc, status) == [kind |-> "raise", exc |-> exc, status |-> status]
ReturnedNone == [kind |-> "None"]
\* _ClientResponse(parts): `parts or []`, each part a _SimpleResponsePart(text)
_ClientResponse(texts) == [kind |-> "response", parts |-> texts]

\* requests' Response.raise_for_status(): HTTPError for a 4xx or 5xx status only.
raise_for_status(status) == 400 <= status /\ status < 600

\* Lines 91-93: the parts branch, for a truthy data["parts"].
FromParts(parts) ==
    CASE parts.t = "list" ->
            IF \A i \in 1..Len(parts.q) : IsDict(parts.q[i])
              THEN _ClientResponse([i \in 1..Len(parts.q) |->
                                        Get(parts.q[i], "text", Str(""))])
              ELSE Raised("AttributeError", 0)
      [] parts.t = "int" -> Raised("TypeError", 0)
      [] OTHER -> Raised("AttributeError", 0)

\* Lines 90-99: the Response made from the parsed body.
Normalize(data) ==
    IF IsDict(data) /\ Truthy(Get(data, "parts", None))
      THEN FromParts(Get(data, "parts", None))
    ELSE IF IsDict(data) /\ Truthy(Get(data, "content", None))
            /\ IsDict(Get(data, "content", None))
      THEN _ClientResponse(<<Get(Get(data, "content", None), "text", Str(""))>>)
    ELSE _ClientResponse(<<PyStr(data)>>)

\* Lines 81-99, given what requests.post gave back.
Receive(resp) ==
    IF resp.kind = "timeout" THEN Raised("Timeout", 0)
    ELSE IF resp.status # 200 /\ raise_for_status(resp.status)
      THEN Raised("HTTPError", resp.status)
    ELSE IF ~JsonLoads(resp.body).ok THEN ReturnedNone
    ELSE Normalize(JsonLoads(resp.body).v)

\* The WSGI request requests.post(base_url, json=payload) makes, base_url
\* naming the server's endpoint.
PostEnviron(payload) ==
    [PATH_INFO |-> "/a2a", REQUEST_METHOD |-> "POST",
     CONTENT_LENGTH |-> DecStr(BytesLen(JsonDumps(payload))),
     input |-> JsonDumps(payload)]

\* The HTTP reply the WSGI server sends for what app left behind: the
\* response app started, or wsgiref's own 500 page when an exception left it.
Served(res) ==
    IF res.exc # "" THEN HttpReply(INTERNAL_SERVER_ERROR, TextBytes("A server error occurred."))
    ELSE HttpReply(res.status, res.body)

---------------------------------------------------------------------------
(* Inputs of the A2A operations.                                           *)

Roles == {USER, AGENT}
Texts == {Str(""), Str("Hello")}
CustomFields == Dict([k \in {"k"} |-> Str("v")])

\* Arguments of a Message(...) call by a caller of the library.
MessageArgs ==
    [role : Roles, text : Texts,
     conversation_id : {None, Str("c1")},
     parent_message_id : {None, Str("p1")},
     message_id : {None, Str(""), Str("m1")},
     metadata : {None, Metadata(None), Metadata(CustomFields)}]

\* Arguments of the Message(...) calls of a client: the threading fields both
\* set or both left out.
SendArgs ==
    {a \in MessageArgs : /\ a.conversation_id = None <=> a.parent_message_id = None
                         /\ a.message_id # Str("")
                         /\ a.metadata = None <=> a.conversation_id = None}

NewMessage(a, n) ==
    Message(a.role, TextContent(a.text), a.conversation_id, a.parent_message_id,
            a.message_id, a.metadata, n)

\* The bridges a server is run with.
Bridges ==
    {[kind |-> "base"], [kind |-> "raise", text |-> "boom"], [kind |-> "echo"],
     [kind |-> "reply",
      args |-> [role |-> AGENT, text |-> Str("Hi"), conversation_id |-> Str("c1"),
                parent_message_id |-> None, message_id |-> Str("r1"),
                metadata |-> Metadata(CustomFields)]]}

\* JSON values a key of a posted object may hold.
WireValues(k) ==
    CASE k = "role" -> {USER, AGENT, Str("system"), None, PyInt(1)}
      [] k = "content" -> {None, EmptyDict, Str("x"), List(<<>>),
                           Dict([j \in {"text"} |-> Str("")]),
                           Dict([j \in {"text"} |-> Str("Hello")]),
                           Dict([j \in {"text"} |-> None])}
      [] k = "conversation_id" -> {None, Str("c1")}
      [] k = "parent_message_id" -> {None, Str("p1")}
      [] k = "message_id" -> {None, Str(""), Str("m1"), PyInt(0)}
      [] k = "metadata" -> {None, EmptyDict, CustomFields}

\* A well-formed posted object.
FullDoc ==
    Dict([k \in MessageKeys |->
        CASE k = "role" -> AGENT
          [] k = "content" -> Dict([j \in {"text"} |-> Str("Hello")])
          [] k = "conversation_id" -> Str("c1")
          [] k = "parent_message_id" -> Str("p1")
          [] k = "message_id" -> Str("m1")
          [] k = "metadata" -> CustomFields])

\* JSON objects posted: the empty one, one key alone, and the well-formed one
\* with one key changed or left out.
WireDicts ==
    {EmptyDict, FullDoc}
    \cup UNION {{Dict([j \in {k} |-> v]) : v \in WireValues(k)} : k \in MessageKeys}
    \cup UNION {{Dict([FullDoc.f EXCEPT ![k] = v]) : v \in WireValues(k)} : k \in MessageKeys}
    \cup {Dict([j \in MessageKeys \ {k} |-> FullDoc.f[j]]) : k \in MessageKeys}

\* JSON values posted.
WireDocs == WireDicts \cup {None, List(<<>>), List(<<Str("x")>>), Str("x"), PyInt(5)}

Environ(path, method, header, input) ==
    [PATH_INFO |-> path, REQUEST_METHOD |-> method, CONTENT_LENGTH |-> header,
     input |-> input]

\* Requests: every path and method with some bodies; the endpoint with every
\* Content-Length header and kind of body; the endpoint with every JSON value.
Requests ==
    {Environ(p, m, DecStr(BytesLen(b)), b) :
        p \in {"/a2a", "/a2a/", "/", "/a2a/x"}, m \in {"POST", "GET", "PUT"},
        b \in {JsonDumps(FullDoc), JsonDumps(List(<<>>))}}
    \cup {Environ("/a2a", "POST", h, b) :
        h \in {None, Str(""), Str("abc"), DecStr(0), DecStr(1), DecStr(BodyLen),
               DecStr(-1), DecStr(-2)},
        b \in {EmptyBytes, BadUtf8Bytes, BadJsonBytes, JsonDumps(FullDoc)}}
    \cup {Environ("/a2a", "POST", DecStr(BodyLen), JsonDumps(v)) : v \in WireDocs}

\* The server's runs: every request with the echo bridge, every JSON value
\* posted to the endpoint with a raising bridge, and some with every bridge.
ServeCases ==
    (Requests \X {[kind |-> "echo"]})
    \cup ({Environ("/a2a", "POST", DecStr(BodyLen), JsonDumps(v)) : v \in WireDocs}
          \X {[kind |-> "raise", text |-> "boom"]})
    \cup ({Environ("/a2a", "POST", DecStr(BodyLen), JsonDumps(v)) :
                v \in {EmptyDict, FullDoc, List(<<>>)}}
          \X Bridges)

\* What the input stream may do with the length app asks of it.
StreamModes(environ) == IF ContentLength(environ) < 0 THEN {"raise", "eof"} ELSE {"eof"}

\* JSON values a server may reply with.
ReplyDocs ==
    {Dict([k \in {"parts"} |-> v]) :
        v \in {List(<<>>), List(<<Dict([j \in {"text"} |-> Str("hi")])>>),
               List(<<EmptyDict>>), List(<<Str("x")>>), Str("abc"), PyInt(5), None,
               List(<<Dict([j \in {"text"} |-> Str("a")]),
                      Dict([j \in {"text"} |-> Str("b")])>>)}}
    \cup {Dict([k \in {"content"} |-> v]) :
        v \in {Dict([j \in {"text"} |-> Str("yo")]), Dict([j \in {"text"} |-> Str("")]),
               EmptyDict, Dict([j \in {"foo"} |-> Str("bar")]), Str("yo"), None}}
    \cup {Dict([k \in {"parts", "content"} |->
                IF k = "parts" THEN v ELSE Dict([j \in {"text"} |-> Str("yo")])]) :
        v \in {List(<<>>), List(<<Dict([j \in {"text"} |-> Str("hi")])>>)}}
    \cup {Dict([k \in {"foo"} |-> Str("bar")]), EmptyDict, List(<<>>), Str("x"),
          PyInt(5), None}

\* What requests.post may give back.
Replies ==
    {HttpReply(st, b) :
        st \in {200}, b \in {EmptyBytes, BadUtf8Bytes, BadJsonBytes} \cup
                             {JsonDumps(v) : v \in ReplyDocs}}
    \cup {HttpReply(st, b) :
        st \in {201, 204, 302, 304, 400, 404, 405, 500, 503},
        b \in {EmptyBytes, TextBytes("Not Found"),
               JsonDumps(Dict([k \in {"error"} |-> Str("boom")])),
               JsonDumps(Dict([k \in {"parts"} |->
                    List(<<Dict([j \in {"text"} |-> Str("hi")])>>)]))}}
    \cup {TimedOut}

---------------------------------------------------------------------------
(* The A2A operations.                                                     *)

\* A caller builds a Message.
Construct ==
    \E a \in MessageArgs :
        LET gen == Generated(a.message_id, uuidCount) IN
        /\ uuidCount + Len(gen) <= MaxUuid
        /\ op' = [kind |-> "construct", args |-> a, msg |-> NewMessage(a, uuidCount)]
        /\ uuidCount' = uuidCount + Len(gen)
        /\ generated' = generated \o gen
        /\ UNCHANGED <<errSeen, careerVars>>

\* _message_from_json on a JSON value.
Decode ==
    \E obj \in WireDocs :
        LET r == _message_from_json(obj, uuidCount)
            gen == IF r.ok THEN r.gen ELSE <<>>
        IN  /\ uuidCount + Len(gen) <= MaxUuid
            /\ op' = [kind |-> "decode", obj |-> obj, res |-> r]
            /\ uuidCount' = uuidCount + Len(gen)
            /\ generated' = generated \o gen
            /\ UNCHANGED <<errSeen, careerVars>>

\* A Message is built, encoded and decoded again.
RoundTrip ==
    \E a \in MessageArgs :
        LET gen == Generated(a.message_id, uuidCount)
            m == NewMessage(a, uuidCount)
            r == _message_from_json(_message_to_json(m).v, uuidCount + Len(gen))
        IN  /\ uuidCount + Len(gen) + Len(r.gen) <= MaxUuid
            /\ op' = [kind |-> "roundtrip", m |-> m, res |-> r]
            /\ uuidCount' = uuidCount + Len(gen) + Len(r.gen)
            /\ generated' = generated \o gen \o r.gen
            /\ UNCHANGED <<errSeen, careerVars>>

\* The server, run with some bridge, takes one request.
Serve ==
    \E c \in ServeCases :
      \E neg \in StreamModes(c[1]) :
        LET environ == c[1]
            bridge == c[2]
            res == app(environ, bridge, neg, uuidCount)
        IN
        /\ uuidCount + Len(res.gen) <= MaxUuid
        /\ op' = [kind |-> "serve", environ |-> environ, bridge |-> bridge,
                  after_error |-> errSeen, res |-> res]
        /\ uuidCount' = uuidCount + Len(res.gen)
        /\ generated' = generated \o res.gen
        /\ errSeen' = (errSeen \/ res.raised)
        /\ UNCHANGED careerVars

\* A client builds a Message and sends it to the server, run with some bridge.
Send ==
    \E a \in SendArgs, bridge \in Bridges :
        LET gen == Generated(a.message_id, uuidCount)
            message == NewMessage(a, uuidCount)
            environ == PostEnviron(ClientPayload(message))
            res == app(environ, bridge, "eof", uuidCount + Len(gen))
        IN  /\ uuidCount + Len(gen) + Len(res.gen) <= MaxUuid
            /\ op' = [kind |-> "send", args |-> a, message |-> message,
                      environ |-> environ, bridge |-> bridge,
                      after_error |-> errSeen, res |-> res,
                      resp |-> Served(res), result |-> Receive(Served(res))]
            /\ uuidCount' = uuidCount + Len(gen) + Len(res.gen)
            /\ generated' = generated \o gen \o res.gen
            /\ errSeen' = (errSeen \/ res.raised)
            /\ UNCHANGED careerVars

\* A client sends a Message to some server and gets `resp` back.
Exchange ==
    \E resp \in Replies :
        /\ op' = [kind |-> "exchange", resp |-> resp, result |-> Receive(resp)]
        /\ UNCHANGED <<uuidCount, generated, errSeen, careerVars>>

EmptyStore == [r \in {} |-> None]

Init ==
    /\ uuidCount = 0
    /\ generated = <<>>
    /\ errSeen = FALSE
    /\ op = [kind |-> "init"]
    /\ RESUME_STORE = EmptyStore
    /\ matched = EmptyStore
    /\ fetched = EmptyStore
    /\ call = [endpoint |-> "init"]

\* The codec and the Message model, used as a library.
NextCodec == Construct \/ Decode \/ RoundTrip
SpecCodec == Init /\ [][NextCodec]_vars

\* The server, taking one request after another.
NextServer == Serve
SpecServer == Init /\ [][NextServer]_vars

\* The client, against this server and against any other.
NextClient == Send \/ Exchange
SpecClient == Init /\ [][NextClient]_vars

---------------------------------------------------------------------------
(* Career service: src/career_multi_agent.py                               *)

\* limit=5 of the job search (line 235)
Limit == 5

\* status_code of the HTTPExceptions raised (lines 257, 253, 87)
HTTP_400 == 400
HTTP_404 == 404
HTTP_500 == 500

\* One entry of SerpAPI's jobs_results.
RawJob(title) ==
    Dict([k \in {"title", "company_name"} |-> IF k = "title" THEN title ELSE Str("Acme")])

JobKeys == {"title", "company", "location", "job_type", "posted_at", "apply_link",
            "source_link"}

\* Lines 155-163: the cleaned form of one entry.
Cleaned(job) ==
    IF ~IsDict(job) \/ ~IsDict(Get(job, "detected_extensions", EmptyDict))
      THEN Raise("AttributeError")
      ELSE Ok(Dict([k \in JobKeys |->
            CASE k = "title" -> Get(job, "title", Str(""))
              [] k = "company" -> Get(job, "company_name", Str(""))
              [] k = "location" -> Get(job, "location", Str(""))
              [] k = "job_type" ->
                    Get(Get(job, "detected_extensions", EmptyDict), "schedule_type", Str(""))
              [] k = "posted_at" ->
                    Get(Get(job, "detected_extensions", EmptyDict), "posted_at", Str(""))
              [] k = "apply_link" -> Get(job, "apply_link", Str(""))
              [] k = "source_link" -> Get(job, "serpapi_link", Str(""))]))

\* results[:limit]
FirstN(q, limit) == SubSeq(q, 1, IF Len(q) < limit THEN Len(q) ELSE limit)

\* fetch_real_jobs_from_serpapi, given what the search did: "nokey" (no API
\* key), "error" (the request or its JSON parsing raised), or an HTTP
\* answer with a status and parsed data.  Every failure is an
\* HTTPException(500).
fetch_real_jobs_from_serpapi(search, limit) ==
    IF search.kind # "http" THEN Raise("HTTPException")
    ELSE IF search.status # 200 \/ ~IsDict(search.data) THEN Raise("HTTPException")
    ELSE LET results == Get(search.data, "jobs_results", List(<<>>)) IN
         IF results.t # "list" THEN Raise("HTTPException")
         ELSE LET q == FirstN(results.q, limit) IN
              IF \E i \in 1..Len(q) : ~Cleaned(q[i]).ok THEN Raise("HTTPException")
              ELSE Ok(List([i \in 1..Len(q) |-> Cleaned(q[i]).v]))

\* JobInfo(**j): pydantic accepts a str title and str or None elsewhere.
JobInfo(j) ==
    /\ j.f["title"].t = "str"
    /\ \A k \in JobKeys : j.f[k].t \in {"str", "None"}

\* Line 256: 0 <= req.job_index < len(jobs)
ValidIndex_upper(job_index, jobs) == job_index < Len(jobs.q)

ValidIndex(job_index, jobs) == 0 <= job_index /\ job_index < Len(jobs.q)

\* Lines 251-257 (and 296-302, 343-349): the status the checks before the
\* LLM call raise, 0 when they pass.
JobSelection(store, resume_id, job_index) ==
    IF resume_id \notin DOMAIN store THEN HTTP_404
    ELSE IF ~ValidIndex(job_index, PyOr(store[resume_id].jobs, List(<<>>))) THEN HTTP_400
    ELSE 0

\* The outcome of one endpoint call, with what it did to the store.
Called(endpoint, resume_id, job_index, status, llm, store) ==
    [endpoint |-> endpoint, resume_id |-> resume_id, job_index |-> job_index,
     status |-> status, llm |-> llm,
     store_changed |-> store # RESUME_STORE,
     jobs_changed |-> \E r \in DOMAIN RESUME_STORE :
                          r \notin DOMAIN store \/ store[r].jobs # RESUME_STORE[r].jobs]

\* The resume ids a caller may send: the first and the last id the service
\* can issue, issued yet or not, and one it never issues.
ResumeIds == {uuid4(1).s, uuid4(MaxUuid).s, "bogus"}

IndexValues == {-1, 0, Limit - 1, Limit}

\* What the job search may do.
Searches ==
    {[kind |-> "nokey"], [kind |-> "error"],
     [kind |-> "http", status |-> 401, data |-> EmptyDict],
     [kind |-> "http", status |-> 200, data |-> EmptyDict],
     [kind |-> "http", status |-> 200, data |-> List(<<>>)]}
    \cup {[kind |-> "http", status |-> 200, data |-> Dict([k \in {"jobs_results"} |-> List(q)])] :
            q \in {<<>>, <<RawJob(Str("Dev"))>>, <<RawJob(None)>>, <<Str("x")>>,
                   [i \in 1..(Limit + MaxExtra) |-> RawJob(Str("Dev"))]}}

\* POST /resume-agent: the text extracted from the upload ("" when none, the
\* request then failing with 400) and whether the LLM call succeeds.
resume_agent ==
    \E text \in {Str(""), Str("cv")}, llm_ok \in BOOLEAN :
        LET resume_id == uuid4(uuidCount + 1).s
            stored == text # Str("") /\ llm_ok
            store == IF stored
                       THEN [r \in DOMAIN RESUME_STORE \cup {resume_id} |->
                                IF r = resume_id
                                  THEN [text |-> text, inferred_role |-> Str("Data Engineer"),
                                        jobs |-> List(<<>>)]
                                  ELSE RESUME_STORE[r]]
                       ELSE RESUME_STORE
        IN  /\ stored => uuidCount < MaxUuid
            /\ RESUME_STORE' = store
            /\ uuidCount' = IF stored THEN uuidCount + 1 ELSE uuidCount
            /\ generated' = IF stored THEN Append(generated, uuid4(uuidCount + 1)) ELSE generated
            /\ call' = Called("/resume-agent", IF stored THEN resume_id ELSE "", 0,
                              IF text = Str("") THEN HTTP_400
                              ELSE IF ~llm_ok THEN HTTP_500 ELSE 200,
                              text # Str(""), store)
            /\ UNCHANGED <<matched, fetched, a2aVars>>

\* POST /job-match-agent
job_match_agent ==
    \E resume_id \in ResumeIds, search \in Searches :
        LET known == resume_id \in DOMAIN RESUME_STORE
            jobs == fetch_real_jobs_from_serpapi(search, Limit)
            store == IF known /\ jobs.ok
                       THEN [RESUME_STORE EXCEPT ![resume_id].jobs = jobs.v]
                       ELSE RESUME_STORE
            answered == known /\ jobs.ok /\ \A i \in 1..Len(jobs.v.q) : JobInfo(jobs.v.q[i])
        IN  /\ RESUME_STORE' = store
            /\ fetched' = IF known /\ jobs.ok
                            THEN [r \in DOMAIN fetched \cup {resume_id} |->
                                    IF r = resume_id THEN jobs.v ELSE fetched[r]]
                            ELSE fetched
            /\ matched' = IF answered
                            THEN [r \in DOMAIN matched \cup {resume_id} |->
                                    IF r = resume_id THEN jobs.v ELSE matched[r]]
                            ELSE matched
            /\ call' = Called("/job-match-agent", resume_id, 0,
                              IF ~known THEN HTTP_404
                              ELSE IF answered THEN 200 ELSE HTTP_500,
                              FALSE, store)
            /\ UNCHANGED <<uuidCount, generated, a2aVars>>

\* The three endpoints that take a resume_id and a job_index.
SelectionAgent(endpoint) ==
    \E resume_id \in ResumeIds, job_index \in IndexValues, llm_ok \in BOOLEAN :
        LET gate == JobSelection(RESUME_STORE, resume_id, job_index) IN
        /\ call' = Called(endpoint, resume_id, job_index,
                          IF gate # 0 THEN gate ELSE IF llm_ok THEN 200 ELSE HTTP_500,
                          gate = 0, RESUME_STORE)
        /\ UNCHANGED <<RESUME_STORE, matched, fetched, uuidCount, generated, a2aVars>>

\* POST /tailor-agent
tailor_agent == SelectionAgent("/tailor-agent")

\* POST /interview-agent
interview_agent == SelectionAgent("/interview-agent")

\* POST /project-agent
project_agent == SelectionAgent("/project-agent")

NextCareer ==
    resume_agent \/ job_match_agent \/ tailor_agent \/ interview_agent \/ project_agent
SpecCareer == Init /\ [][NextCareer]_vars

---------------------------------------------------------------------------
(* Claims about the transport server (SpecServer).                         *)

Endpoint(environ) == environ.PATH_INFO \in {"/a2a", "/a2a/"}

\* C1: the handler is invoked if and only if the path is the endpoint path
\* and the method is POST; any other path yields 404 and the endpoint path
\* with another method 405, the body unread and the handler not invoked in
\* both cases; a POST to the endpoint whose handler returns a Message
\* yields 200.
C1_Routing ==
    op.kind = "serve" =>
        /\ op.res.handled <=> (Endpoint(op.environ) /\ op.environ.REQUEST_METHOD = "POST")
        /\ ~Endpoint(op.environ) =>
                op.res.status = 404 /\ ~op.res.read /\ ~op.res.handled
        /\ (Endpoint(op.environ) /\ op.environ.REQUEST_METHOD # "POST") =>
                op.res.status = 405 /\ ~op.res.read /\ ~op.res.handled
        /\ (op.res.handled /\ op.res.reply # None) => op.res.status = 200

\* str(e) of the exception a bridge raises
ExceptionText(bridge) == IF bridge.kind = "raise" THEN bridge.text ELSE ""

\* The JSON object the wire format gives for a reply Message.
ReplyJson(m) ==
    Dict([k \in {"role", "message_id", "conversation_id", "parent_message_id",
                 "content", "metadata", "parts"} |->
        CASE k = "role" -> m.role
          [] k = "message_id" -> m.message_id
          [] k = "conversation_id" -> m.conversation_id
          [] k = "parent_message_id" -> m.parent_message_id
          [] k = "content" -> Dict([j \in {"text"} |-> m.content.text])
          [] k = "metadata" -> m.metadata.custom_fields
          [] k = "parts" -> List(<<Dict([j \in {"text"} |-> m.content.text])>>)])

\* C2: when the handler raises, no exception leaves app and the request is
\* answered 500 with {"error": <exception text>}; a later request whose
\* handler returns a Message is answered 200 with the encoding of that
\* Message, whatever was raised before it.
C2_HandlerErrorIsolation ==
    op.kind = "serve" =>
        /\ op.res.raised =>
              /\ op.res.exc = ""
              /\ op.res.status = 500
              /\ op.res.body = JsonDumps(Dict([k \in {"error"} |->
                                                Str(ExceptionText(op.bridge))]))
        /\ (op.after_error /\ op.res.handled /\ ~op.res.raised) =>
              /\ op.res.exc = ""
              /\ op.res.status = 200
              /\ op.res.body = JsonDumps(ReplyJson(op.res.reply))

\* A request answered 200 after an earlier request's handler raised.
C2_Witness ==
    /\ op.kind = "serve"
    /\ op.after_error
    /\ op.res.handled
    /\ ~op.res.raised
    /\ op.res.status = 200
    /\ op.bridge.kind = "echo"

\* C5: for a POST to the endpoint, whatever the Content-Length header and
\* the body, no exception leaves app, the handler is dispatched with a
\* Message and the request ends with a 200 or a 500.
C5_LenientDecodeTotal ==
    (op.kind = "serve" /\ Endpoint(op.environ) /\ op.environ.REQUEST_METHOD = "POST") =>
        /\ op.res.exc = ""
        /\ op.res.handled
        /\ op.res.msg.t = "Message"
        /\ op.res.status \in {200, 500}

---------------------------------------------------------------------------
(* Claims about the codec and the Message model (SpecCodec).               *)

\* C4: a Message whose message_id is set is reproduced by
\* _message_from_json(_message_to_json(m)) in every field, its message_id
\* not generated anew.
C4_RoundTrip ==
    op.kind = "roundtrip" =>
        /\ op.res.ok
        /\ op.res.gen = <<>>
        /\ op.res.v.role = op.m.role
        /\ op.res.v.content.text = op.m.content.text
        /\ op.res.v.conversation_id = op.m.conversation_id
        /\ op.res.v.parent_message_id = op.m.parent_message_id
        /\ op.res.v.message_id = op.m.message_id
        /\ op.res.v.metadata.custom_fields = op.m.metadata.custom_fields
        /\ op.res.v = op.m

\* A round trip of a Message with empty text, empty metadata, one threading
\* field set and a generated id.
C4_Witness ==
    /\ op.kind = "roundtrip"
    /\ op.res.ok
    /\ op.m.content.text = Str("")
    /\ op.m.metadata.custom_fields = EmptyDict
    /\ op.m.conversation_id = None
    /\ op.m.parent_message_id = Str("p1")
    /\ op.m.message_id = uuid4(2)

\* The Message the last operation built, or None.
Built ==
    CASE op.kind = "construct" -> op.msg
      [] op.kind = "decode" -> IF op.res.ok THEN op.res.v ELSE None
      [] op.kind = "roundtrip" -> op.m
      [] OTHER -> None

NoDuplicates(q) == \A i, j \in 1..Len(q) : q[i] = q[j] => i = j

\* Decoding {} gives the defaults and a new id; every Message built has a
\* non-empty id; no two generated ids are the same.
DefaultsAndIds ==
    /\ (op.kind = "decode" /\ op.obj = EmptyDict) =>
          /\ op.res.ok
          /\ op.res.v.role = Str("user")
          /\ op.res.v.content.text = Str("")
          /\ op.res.v.conversation_id = None
          /\ op.res.v.parent_message_id = None
          /\ op.res.v.metadata.custom_fields = EmptyDict
          /\ op.res.gen = <<op.res.v.message_id>>
          /\ generated[Len(generated)] = op.res.v.message_id
    /\ Built # None => Built.message_id \notin {None, Str("")}
    /\ NoDuplicates(generated)

\* C6 as stated: decoding {} gives role "user", text "", no threading ids,
\* empty metadata and a new non-empty id; every Message has a non-empty id;
\* an id the caller supplies is kept as is; two Messages built without a
\* supplied id never share an id.
C6_DefaultSubstitution ==
    /\ DefaultsAndIds
    /\ (op.kind = "construct" /\ op.args.message_id # None) =>
          op.msg.message_id = op.args.message_id

\* C6 as amended: the same, an id the caller supplies being kept as is when
\* it is non-empty, and an empty one replaced by a new id.
C6_DefaultSubstitutionAmended ==
    /\ DefaultsAndIds
    /\ (op.kind = "construct" /\ op.args.message_id \notin {None, Str("")}) =>
          op.msg.message_id = op.args.message_id
    /\ (op.kind = "construct" /\ op.args.message_id \in {None, Str("")}) =>
          /\ op.msg.message_id = generated[Len(generated)]
          /\ op.msg.message_id # op.args.message_id

\* A second Message built without a usable id, the caller having passed "".
C6_Witness ==
    /\ op.kind = "construct"
    /\ op.args.message_id = Str("")
    /\ Len(generated) = 2
    /\ op.msg.message_id = generated[2]

\* C7: every Message decode produces has role "user" or "agent": the wire
\* role when it is one of the two, "user" when it is missing or anything else.
C7_RoleInvariant ==
    (op.kind = "decode" /\ op.res.ok) =>
        /\ op.res.v.role \in {Str("user"), Str("agent")}
        /\ op.res.v.role = (IF Get(op.obj, "role", None) \in {Str("user"), Str("agent")}
                              THEN Get(op.obj, "role", None) ELSE Str("user"))

---------------------------------------------------------------------------
(* Claims about the transport client (SpecClient).                         *)

\* C3: a client sends Message(role=user, content=T), nothing else set, to a
\* server whose handler answers with the same text: the 200 reply carries
\* content.text = T and parts = [{"text": T}], and send_message returns a
\* Response with exactly one part, whose text is T.
C3_EndToEndEcho ==
    (/\ op.kind = "send"
     /\ op.bridge.kind = "echo"
     /\ op.args.role = USER
     /\ op.args.conversation_id = None
     /\ op.args.parent_message_id = None
     /\ op.args.message_id = None
     /\ op.args.metadata = None) =>
        /\ op.resp.status = 200
        /\ op.resp.body.kind = "json"
        /\ Get(Get(op.resp.body.v, "content", EmptyDict), "text", None) = op.args.text
        /\ Get(op.resp.body.v, "parts", None)
              = List(<<Dict([j \in {"text"} |-> op.args.text])>>)
        /\ op.result.kind = "response"
        /\ op.result.parts = <<op.args.text>>

\* The empty text echoed end to end.
C3_Witness ==
    /\ op.kind = "send"
    /\ op.bridge.kind = "echo"
    /\ op.args.role = USER
    /\ op.args.conversation_id = None
    /\ op.args.message_id = None
    /\ op.args.metadata = None
    /\ op.args.text = Str("")
    /\ op.result.kind = "response"
    /\ Len(op.result.parts) = 1

\* The result C8 describes for a 200 reply with body `b`.
NormalizedAsStated(b) ==
    IF ~JsonLoads(b).ok THEN ReturnedNone
    ELSE LET data == JsonLoads(b).v IN
         IF IsDict(data) /\ "parts" \in DOMAIN data.f /\ data.f["parts"].t = "list"
           THEN _ClientResponse([i \in 1..Len(data.f["parts"].q) |->
                    IF IsDict(data.f["parts"].q[i]) /\ "text" \in DOMAIN data.f["parts"].q[i].f
                      THEN data.f["parts"].q[i].f["text"] ELSE Str("")])
         ELSE IF IsDict(data) /\ "content" \in DOMAIN data.f /\ IsDict(data.f["content"])
                 /\ "text" \in DOMAIN data.f["content"].f
           THEN _ClientResponse(<<data.f["content"].f["text"]>>)
         ELSE _ClientResponse(<<PyStr(data)>>)

\* C8: for every 200 reply send_message returns without raising: None for
\* a body that is not JSON; one part per entry of a `parts` array of any
\* length (text "" when an entry has none); else one part holding
\* content.text; else one part holding the string form of the whole body.
C8_ClientNormalization ==
    (op.kind \in {"send", "exchange"} /\ op.resp.kind = "http" /\ op.resp.status = 200) =>
        /\ op.result.kind # "raise"
        /\ op.result = NormalizedAsStated(op.resp.body)

\* C9: for every reply whose status is not 200, send_message raises a
\* transport error carrying that status and returns nothing.
C9_TransportError ==
    (op.kind \in {"send", "exchange"} /\ op.resp.kind = "http" /\ op.resp.status # 200) =>
        op.result = Raised("HTTPError", op.resp.status)

---------------------------------------------------------------------------
(* Claims about the career service (SpecCareer).                           *)

SelectionEndpoints == {"/tailor-agent", "/interview-agent", "/project-agent"}

Issued == {generated[i].s : i \in 1..Len(generated)}

\* What C10 says besides naming the list the index is checked against: an
\* unknown resume_id yields 404, a known one with no stored jobs or an index
\* out of range 400; the three endpoints never change RESUME_STORE and the
\* jobs of an existing record change in /job-match-agent only.
GatingStatuses ==
    /\ call.endpoint \in SelectionEndpoints =>
          /\ call.resume_id \notin Issued => (call.status = 404 /\ ~call.llm)
          /\ (/\ call.resume_id \in Issued
              /\ ~(0 <= call.job_index
                   /\ call.job_index < Len(RESUME_STORE[call.resume_id].jobs.q))) =>
                (call.status = 400 /\ ~call.llm)
          /\ ~call.store_changed
    /\ (call.endpoint # "init" /\ call.jobs_changed) => call.endpoint = "/job-match-agent"
    /\ DOMAIN RESUME_STORE = Issued

\* C10 as stated: /tailor-agent, /interview-agent and /project-agent reach
\* their LLM call only if resume_id was issued by /resume-agent and the
\* latest successful /job-match-agent call for it stored a job list with
\* 0 <= job_index < length; 404 for an unknown resume_id, 400 for a known
\* one with no stored jobs or an index out of range; the store is changed by
\* none of the three, the jobs of a record by /job-match-agent only.
C10_StageGating ==
    /\ GatingStatuses
    /\ (call.endpoint \in SelectionEndpoints /\ call.llm) =>
          /\ call.resume_id \in Issued
          /\ call.resume_id \in DOMAIN matched
          /\ 0 <= call.job_index
          /\ call.job_index < Len(matched[call.resume_id].q)

\* C10 as amended: the same, the list being the one stored by the latest
\* /job-match-agent call for that resume_id whose job search succeeded,
\* whether or not that call went on to answer 200.
C10_StageGatingAmended ==
    /\ GatingStatuses
    /\ (call.endpoint \in SelectionEndpoints /\ call.llm) =>
          /\ call.resume_id \in Issued
          /\ call.resume_id \in DOMAIN fetched
          /\ 0 <= call.job_index
          /\ call.job_index < Len(fetched[call.resume_id].q)

\* An LLM call reached for the last of five stored jobs, after a second
\* resume was uploaded.
C10_Witness ==
    /\ call.endpoint = "/project-agent"
    /\ call.llm
    /\ call.job_index = Limit - 1
    /\ call.resume_id = uuid4(1).s
    /\ Len(generated) = 2
    /\ RESUME_STORE[uuid4(2).s].jobs = List(<<>>)

=============================================================================
